---- MODULE Spec2Model ----
(***************************************************************************)
(* wenv: passing environment variables from WSL to a Windows program.      *)
(*                                                                         *)
(* src/wenv.go holds two revisions of the launcher one after the other:    *)
(*   rev 1 (lines 1-283)   retries the exec on ENOMEM, winpath knows       *)
(*                         /mnt/<l> and /<l>;                              *)
(*   rev 2 (lines 285-589) reads the mount root from /etc/wsl.conf and     *)
(*                         execs once.                                     *)
(* src/unnamed/part_000 is the Windows helper (wenvhelper.exe).            *)
(*                                                                         *)
(* Strings are sequences of one-character strings, so that splitting,      *)
(* trimming and prefix matching are computed as the code computes them.    *)
(***************************************************************************)
EXTENDS Integers, Sequences, FiniteSets, TLC

(***************************************************************************)
(* The Go string functions the program uses.                               *)
(***************************************************************************)
IsSpace(c) == c \in {" ", "\t", "\n", "\r"}

RECURSIVE TrimLeft(_)
TrimLeft(s) == IF s # <<>> /\ IsSpace(Head(s)) THEN TrimLeft(Tail(s)) ELSE s

RECURSIVE TrimRight(_)
TrimRight(s) ==
  IF s # <<>> /\ IsSpace(s[Len(s)]) THEN TrimRight(SubSeq(s, 1, Len(s) - 1)) ELSE s

TrimSpace(s) == TrimRight(TrimLeft(s))

HasPrefix(s, p) == Len(s) >= Len(p) /\ SubSeq(s, 1, Len(p)) = p

Contains(s, sub) ==
  \E i \in 1..(Len(s) - Len(sub) + 1) : SubSeq(s, i, i + Len(sub) - 1) = sub

\* position of the first c in s, 0 when there is none
Index(s, c) ==
  IF \E i \in 1..Len(s) : s[i] = c
  THEN CHOOSE i \in 1..Len(s) : s[i] = c /\ \A j \in 1..(i - 1) : s[j] # c
  ELSE 0

RECURSIVE Split(_, _)
Split(s, c) ==
  LET i == Index(s, c)
  IN  IF i = 0 THEN <<s>>
      ELSE <<SubSeq(s, 1, i - 1)>> \o Split(SubSeq(s, i + 1, Len(s)), c)

\* strings.SplitN(s, c, 2)
SplitN2(s, c) ==
  LET i == Index(s, c)
  IN  IF i = 0 THEN <<s>>
      ELSE <<SubSeq(s, 1, i - 1), SubSeq(s, i + 1, Len(s))>>

RECURSIVE Join(_, _)
Join(p, sep) ==
  IF p = <<>> THEN <<>>
  ELSE IF Len(p) = 1 THEN p[1]
  ELSE p[1] \o sep \o Join(Tail(p), sep)

\* strings.Replace(s, a, b, -1) for one-character a and b
Replace(s, a, b) == [i \in 1..Len(s) |-> IF s[i] = a THEN b ELSE s[i]]

LowerLetters ==
  <<"a","b","c","d","e","f","g","h","i","j","k","l","m",
    "n","o","p","q","r","s","t","u","v","w","x","y","z">>

UpperLetters ==
  <<"A","B","C","D","E","F","G","H","I","J","K","L","M",
    "N","O","P","Q","R","S","T","U","V","W","X","Y","Z">>

IsLower(c) == \E i \in 1..26 : LowerLetters[i] = c
IsUpper(c) == \E i \in 1..26 : UpperLetters[i] = c

ToUpperChar(c) ==
  IF IsLower(c) THEN UpperLetters[CHOOSE i \in 1..26 : LowerLetters[i] = c] ELSE c

ToLowerChar(c) ==
  IF IsUpper(c) THEN LowerLetters[CHOOSE i \in 1..26 : UpperLetters[i] = c] ELSE c

ToUpper(s) == [i \in 1..Len(s) |-> ToUpperChar(s[i])]

(***************************************************************************)
(* Program constants.                                                      *)
(***************************************************************************)
varIgnore  == 0
varPass    == 1
varConvert == 2
varPath    == 3

\* the bound of the exec retry loop of rev 1: "i < 10"
execRetries == 10

fileprefix == <<"w","e","n","v">>

DefaultRoot == <<"/","m","n","t","/">>

WENVName == <<"W","E","N","V">>

IgnoredNames ==
  { <<"h","o","m","e">>, <<"p","a","t","h">>, <<"i","f","s">>, <<"I","F","S">>,
    <<"S","H","E","L","L">>, <<"p","r","o","m","p","t">>,
    <<"E","D","I","T","O","R">>, <<"P","A","G","E","R">>,
    <<"B","R","O","W","S","E","R">> }

N_PWD    == <<"P","W","D">>
N_HOME   == <<"H","O","M","E">>
N_GOBIN  == <<"G","O","B","I","N">>
N_GOPATH == <<"G","O","P","A","T","H">>
N_PATH   == <<"P","A","T","H">>

\* the package-level table, as each revision initialises it
varoptsDefault(r) ==
  LET conv == IF r = 1 THEN {N_PWD, N_HOME, N_GOBIN, N_GOPATH} ELSE {N_HOME, N_GOBIN}
      plist == IF r = 1 THEN {N_PATH} ELSE {N_PATH, N_GOPATH}
  IN  [n \in IgnoredNames \cup conv \cup plist |->
         IF n \in IgnoredNames THEN varIgnore
         ELSE IF n \in conv THEN varConvert ELSE varPath]

(***************************************************************************)
(* getvaropts: the WENV override, applied to the table segment by segment. *)
(***************************************************************************)
\* os.Getenv: the value of the entry named n, "" when there is none
Getenv(env, n) ==
  IF \E i \in 1..Len(env) : SplitN2(env[i], "=")[1] = n
  THEN LET i == CHOOSE i \in 1..Len(env) :
                  /\ SplitN2(env[i], "=")[1] = n
                  /\ \A j \in 1..(i - 1) : SplitN2(env[j], "=")[1] # n
           v == SplitN2(env[i], "=")
       IN  IF Len(v) = 2 THEN v[2] ELSE <<>>
  ELSE <<>>

\* one iteration of the loop body on the trimmed, non-empty segment e
SegOpt(e) ==
  CASE e[1] = "!" -> varIgnore
    [] e[1] = "@" -> varConvert
    [] e[1] = "#" -> varPath
    [] OTHER      -> varPass

\* a mutant of SegName: "case '$'" is missing
SegNameNoDollar(e) == IF e[1] \in {"!", "@", "#"} THEN Tail(e) ELSE e

SegName(e) == IF e[1] \in {"!", "@", "#", "$"} THEN Tail(e) ELSE e

Put(m, k, v) == [x \in DOMAIN m \cup {k} |-> IF x = k THEN v ELSE m[x]]

RECURSIVE ApplySegs(_, _)
ApplySegs(tbl, segs) ==
  IF segs = <<>> THEN [tbl |-> tbl, err |-> FALSE]
  ELSE LET e == TrimSpace(Head(segs))
       IN  IF e = <<>> THEN ApplySegs(tbl, Tail(segs))
           ELSE IF SegName(e) = <<>> THEN [tbl |-> tbl, err |-> TRUE]
           ELSE ApplySegs(Put(tbl, SegName(e), SegOpt(e)), Tail(segs))

getvaropts(tbl, env) ==
  LET wenv == Getenv(env, WENVName)
  IN  IF wenv = <<>> THEN [tbl |-> tbl, err |-> FALSE]
      ELSE ApplySegs(tbl, Split(wenv, ","))

(***************************************************************************)
(* The path translator.  The mount root is used as a regular expression by *)
(* the code ("^" + wslRoot + "([a-z])(/|$)"); the roots of this model hold  *)
(* no regular-expression metacharacter, so the pattern matches the root    *)
(* literally.                                                              *)
(***************************************************************************)
NoPanic(root) == [root |-> root, panic |-> FALSE]
Panic == [root |-> <<>>, panic |-> TRUE]

\* the loop of getWSLRoot over the lines of /etc/wsl.conf
RECURSIVE ScanRoot(_)
ScanRoot(lines) ==
  IF lines = <<>> THEN NoPanic(DefaultRoot)
  ELSE LET s == Head(lines)
       IN  IF ~Contains(s, <<"r","o","o","t">>) THEN ScanRoot(Tail(lines))
           ELSE LET split == Split(s, "=")
                IN  IF Len(split) # 2 THEN NoPanic(DefaultRoot)
                    ELSE LET t == TrimSpace(split[2])
                         IN  IF t = <<>> THEN Panic                \* s[0] of ""
                             ELSE IF t[1] # "\"" THEN NoPanic(t)
                             ELSE IF Len(t) < 2 THEN Panic         \* s[1:0]
                             ELSE NoPanic(SubSeq(t, 2, Len(t) - 1))

\* cf is the configuration file: [readable |-> BOOLEAN, text |-> its bytes]
getWSLRoot(cf) ==
  IF ~cf.readable THEN NoPanic(DefaultRoot) ELSE ScanRoot(Split(cf.text, "\n"))

\* the root a winpath/wslpath call of rev 2 works with, wslRoot being ws
RootFor(ws, cf) == IF ws = <<>> THEN getWSLRoot(cf) ELSE NoPanic(ws)

\* how often n calls in a row read the configuration file
ReadsFor(ws, cf, n) ==
  IF ws # <<>> \/ n = 0 THEN 0
  ELSE IF getWSLRoot(cf).panic \/ getWSLRoot(cf).root # <<>> THEN 1
  ELSE n

\* "^" + prefix + "([a-z])(/|$)" matches path
MatchDrive(prefix, path) ==
  /\ HasPrefix(path, prefix)
  /\ Len(path) > Len(prefix)
  /\ IsLower(path[Len(prefix) + 1])
  /\ (Len(path) = Len(prefix) + 1 \/ path[Len(prefix) + 2] = "/")

\* the prefix the pattern of revision r matches on path, <<"?">> when none:
\* rev 1 "^(/mnt)?/([a-z])(/|$)", rev 2 "^" + wslRoot + "([a-z])(/|$)"
DrivePrefix(r, root, path) ==
  IF r = 1
  THEN IF MatchDrive(<<"/","m","n","t","/">>, path) THEN <<"/","m","n","t","/">>
       ELSE IF MatchDrive(<<"/">>, path) THEN <<"/">>
       ELSE <<"?">>
  ELSE IF MatchDrive(root, path) THEN root ELSE <<"?">>

winpath(r, root, path) ==
  LET pre == DrivePrefix(r, root, path)
      p1  == IF pre = <<"?">> THEN path
             ELSE <<ToUpperChar(path[Len(pre) + 1]), ":">>
                    \o SubSeq(path, Len(pre) + 2, Len(path))
      p2  == Replace(p1, "/", "\\")
  IN  IF HasPrefix(p2, <<"\\">>) THEN [ok |-> FALSE, path |-> <<>>]
      ELSE [ok |-> TRUE, path |-> p2]

\* a mutant of wslpath: strings.ToLower is missing
wslpathNoLower(r, root, path) ==
  LET p1 == Replace(path, "\\", "/")
      rt == IF r = 1 THEN DefaultRoot ELSE root
  IN  IF Len(p1) >= 2 /\ (IsLower(p1[1]) \/ IsUpper(p1[1])) /\ p1[2] = ":"
      THEN rt \o <<p1[1]>> \o SubSeq(p1, 3, Len(p1))
      ELSE p1

wslpath(r, root, path) ==
  LET p1 == Replace(path, "\\", "/")
      rt == IF r = 1 THEN DefaultRoot ELSE root
  IN  IF Len(p1) >= 2 /\ (IsLower(p1[1]) \/ IsUpper(p1[1])) /\ p1[2] = ":"
      THEN rt \o <<ToLowerChar(p1[1])>> \o SubSeq(p1, 3, Len(p1))
      ELSE p1

(***************************************************************************)
(* The body of the loop over os.Environ().                                 *)
(***************************************************************************)
RECURSIVE ConvSegs(_, _, _)
ConvSegs(r, root, segs) ==
  IF segs = <<>> THEN <<>>
  ELSE LET w == winpath(r, root, Head(segs))
       IN  (IF w.ok THEN <<w.path>> ELSE <<>>) \o ConvSegs(r, root, Tail(segs))

\* a mutant of PathListValue: the segments are joined with ":" again
PathListValueColon(r, root, v) == Join(ConvSegs(r, root, Split(v, ":")), <<":">>)

PathListValue(r, root, v) == Join(ConvSegs(r, root, Split(v, ":")), <<";">>)

\* the policy the loop applies to name n: -1 when the table has no entry
OptOf(tbl, n) == IF n \in DOMAIN tbl THEN tbl[n] ELSE -1

\* how many winpath calls the loop body makes for the entry e
CallsFor(tbl, e) ==
  LET v == SplitN2(e, "=")
      opt == OptOf(tbl, v[1])
  IN  IF opt = varConvert THEN 1
      ELSE IF opt = varPath THEN Len(Split(v[2], ":"))
      ELSE 0

\* a mutant of CollectOne: "case varIgnore: continue" is missing
CollectOneNoIgnore(r, root, tbl, vs, e) ==
  LET v == SplitN2(e, "=")
      opt == OptOf(tbl, v[1])
  IN  CASE opt = varConvert ->
             LET w == winpath(r, root, v[2])
             IN  IF w.ok THEN Put(vs, v[1], w.path) ELSE vs
        [] opt = varPath    -> Put(vs, v[1], PathListValue(r, root, v[2]))
        [] OTHER            -> Put(vs, v[1], v[2])

\* vars after the loop body ran on the entry e
CollectOne(r, root, tbl, vs, e) ==
  LET v == SplitN2(e, "=")
      opt == OptOf(tbl, v[1])
  IN  CASE opt = varIgnore  -> vs
        [] opt = varConvert ->
             LET w == winpath(r, root, v[2])
             IN  IF w.ok THEN Put(vs, v[1], w.path) ELSE vs
        [] opt = varPath    -> Put(vs, v[1], PathListValue(r, root, v[2]))
        [] OTHER            -> Put(vs, v[1], v[2])

(***************************************************************************)
(* Command line parsing (the first loop of wenv()).                        *)
(***************************************************************************)
EmptyMap == [x \in {} |-> <<>>]

\* how many leading tokens of a hold a "="
RECURSIVE Leading(_)
Leading(a) ==
  IF a # <<>> /\ Len(SplitN2(Head(a), "=")) = 2 THEN 1 + Leading(Tail(a)) ELSE 0

\* a mutant of ParseVars: a name's first token wins
RECURSIVE ParseVarsKeepFirst(_, _)
ParseVarsKeepFirst(vs, toks) ==
  IF toks = <<>> THEN vs
  ELSE LET v == SplitN2(Head(toks), "=")
       IN  ParseVarsKeepFirst(IF v[1] \in DOMAIN vs THEN vs ELSE Put(vs, v[1], v[2]),
                              Tail(toks))

\* vars[v[0]] = v[1] for each token, in order
RECURSIVE ParseVars(_, _)
ParseVars(vs, toks) ==
  IF toks = <<>> THEN vs
  ELSE LET v == SplitN2(Head(toks), "=")
       IN  ParseVars(Put(vs, v[1], v[2]), Tail(toks))

(***************************************************************************)
(* The helper's view of its first argument and of its environment.         *)
(***************************************************************************)
IsSep(c) == c \in {"\\", "/"}

RECURSIVE StripSeps(_)
StripSeps(s) ==
  IF s # <<>> /\ IsSep(s[Len(s)]) THEN StripSeps(SubSeq(s, 1, Len(s) - 1)) ELSE s

RECURSIVE LastElem(_)
LastElem(s) ==
  IF \E k \in 1..Len(s) : IsSep(s[k])
  THEN LastElem(SubSeq(s, (CHOOSE k \in 1..Len(s) : IsSep(s[k])) + 1, Len(s)))
  ELSE s

\* filepath.Base on Windows, for paths with a drive letter or no volume
Base(path) ==
  IF path = <<>> THEN <<".">>
  ELSE LET s == StripSeps(path)
           v == IF Len(s) >= 2 /\ s[2] = ":" THEN SubSeq(s, 3, Len(s)) ELSE s
           e == LastElem(v)
       IN  IF e = <<>> THEN <<"\\">> ELSE e

\* The Windows environment block ignores the case of names (wenv.go:15-16):
\* it is keyed by the upper-cased name.
RECURSIVE EnvBlock(_)
EnvBlock(env) ==
  IF env = <<>> THEN EmptyMap
  ELSE LET v == SplitN2(env[Len(env)], "=")
       IN  Put(EnvBlock(SubSeq(env, 1, Len(env) - 1)), ToUpper(v[1]), v[2])

\* a mutant of Setenv: a name the block holds keeps its value
SetenvKeepInherited(block, k, v) ==
  IF ToUpper(k) \in DOMAIN block THEN block ELSE Put(block, ToUpper(k), v)

Setenv(block, k, v) == Put(block, ToUpper(k), v)

(***************************************************************************)
(* The inputs of a run: which revision runs, /etc/wsl.conf, the command    *)
(* line, the environment, what the search path holds, and, for the helper  *)
(* started by hand, its arguments and the file it is pointed at.           *)
(***************************************************************************)
\* entries of EnvPool in one environment
MaxEnv == 2

\* segments of a composed WENV value
MaxSegs == 2

\* leading name=value tokens of a composed command line
MaxTokens == 2

NoConf == [readable |-> FALSE, text |-> <<>>]

ConfFiles ==
  { [readable |-> FALSE, text |-> <<>>],
    [readable |-> TRUE, text |-> <<"[","a","u","t","o","m","o","u","n","t","]","\n","r","o","o","t"," ","="," ","/","\n">>],
    [readable |-> TRUE, text |-> <<"r","o","o","t"," ","="," ","\"","/","w","i","n","/","\"","\n">>],
    [readable |-> TRUE, text |-> <<"r","o","o","t","\n">>],
    [readable |-> TRUE, text |-> <<"r","o","o","t"," ","="," ","a"," ","="," ","b">>],
    [readable |-> TRUE, text |-> <<"r","o","o","t"," ","=">>],
    [readable |-> TRUE, text |-> <<"r","o","o","t"," ","="," ","\"">>],
    [readable |-> TRUE, text |-> <<"r","o","o","t"," ","="," ","\"","\"">>],
    [readable |-> TRUE, text |-> <<"r","o","o","t"," ","="," ","\"","/","m","n","t">>],
    [readable |-> TRUE, text |-> <<"e","n","a","b","l","e","d"," ","="," ","t","r","u","e","\n">>] }

EnvPool ==
  << <<"H","O","M","E","=","/","m","n","t","/","c","/","U","s","e","r","s">>,
    <<"H","O","M","E","=","/","h","o","m","e","/","u">>,
    <<"H","O","M","E","=","C",":","/","U","s","e","r","s">>,
    <<"P","A","T","H","=","/","m","n","t","/","c","/","a",":","/","m","n","t","/","d","/","b">>,
    <<"P","A","T","H","=","/","m","n","t","/","c","/","a",":",":","/","b","i","n">>,
    <<"P","A","T","H","=","/","b","i","n",":","/","u","s","r">>,
    <<"S","H","E","L","L","=","/","b","i","n","/","s","h">>,
    <<"F","O","O","=","/","m","n","t","/","c","/","x">>,
    <<"f","o","o","=","1">>,
    <<"G","O","P","A","T","H","=","/","c","/","g","o">> >>

WenvPool ==
  { <<"W","E","N","V","=">>,
    <<"W","E","N","V","=","!","F","O","O",","," ","@","B","A","R",","," ","#","B","A","Z",","," ","$","P","A","T","H">>,
    <<"W","E","N","V","=","@">>,
    <<"W","E","N","V","=","@","F","O","O">>,
    <<"W","E","N","V","=","#","F","O","O",",","!","F","O","O">>,
    <<"W","E","N","V","=","H","O","M","E",","," ",",","!","f","o","o">>,
    <<"W","E","N","V","=","!","X",",","$">> }

SegPool ==
  << <<"!","F","O","O">>,
    <<" ","@","F","O","O"," ">>,
    <<"#","P","A","T","H">>,
    <<"$","P","A","T","H">>,
    <<"F","O","O">>,
    <<>>,
    <<"@">>,
    <<"$","!","x">> >>

TokenPool ==
  << <<"F","O","O","=","/","m","n","t","/","c","/","x">>,
    <<"F","O","O","=","2">>,
    <<"S","H","E","L","L","=","x">>,
    <<"f","o","o","=","1">>,
    <<"A","=","b","=","c">>,
    <<"=","1">> >>

Rests ==
  { <<>>,
    <<<<"c","m","d",".","e","x","e">>>>,
    <<<<"c","m","d",".","e","x","e">>, <<"/","c">>, <<"A","=","1">>>> }

ProgName == <<"w","e","n","v">>

PlainArgv == <<ProgName, <<"c","m","d",".","e","x","e">>>>

NotFound == <<>>

Targets == { NotFound, <<"/","m","n","t","/","c","/","W","/","c","m","d",".","e","x","e">>, <<"/","b","i","n","/","l","s">> }

TempOutputs == { <<"C",":","\\","T","\r","\n">>, <<"\r","\n">> }

TmpDir == <<"/","t","m","p">>

HelperDirectArgs ==
  { <<<<"C",":","\\","T","\\","w","e","n","v","1">>, <<"C",":","\\","W","\\","c","m","d",".","e","x","e">>, <<"c","m","d",".","e","x","e">>>>,
    <<<<"C",":","\\","T","\\","e","n","v",".","t","x","t">>, <<"C",":","\\","W","\\","c","m","d",".","e","x","e">>, <<"c","m","d",".","e","x","e">>>>,
    <<<<"C",":","\\","T","\\","w","e","n","v","1">>, <<"C",":","\\","W","\\","c","m","d",".","e","x","e">>>> }

DirectFiles == { <<"C",":","\\","T","\\","w","e","n","v","1">>, <<"C",":","\\","T","\\","e","n","v",".","t","x","t">> }

DirectContent ==
  { [valid |-> FALSE, map |-> EmptyMap],
    [valid |-> TRUE, map |-> Put(EmptyMap, <<"F","O","O">>, <<"1">>)] }

Name(e) == SplitN2(e, "=")[1]

Range(s) == { s[k] : k \in 1..Len(s) }

\* the entries of pool at the positions S, in the pool's order
RECURSIVE Pick(_, _)
Pick(pool, S) ==
  IF S = {} THEN <<>>
  ELSE LET k == CHOOSE k \in S : \A j \in S : k <= j
       IN  <<pool[k]>> \o Pick(pool, S \ {k})

\* the sequences over P of length at most n
RECURSIVE SeqsUpTo(_, _)
SeqsUpTo(P, n) ==
  IF n = 0 THEN { <<>> }
  ELSE LET r == SeqsUpTo(P, n - 1)
       IN  r \cup { <<x>> \o s : x \in P, s \in { q \in r : Len(q) = n - 1 } }

\* environments: entries of EnvPool with different names
EnvsOf(n) ==
  { Pick(EnvPool, S) :
      S \in { S \in SUBSET (1..Len(EnvPool)) :
                /\ Cardinality(S) <= n
                /\ \A a, b \in S : a # b => Name(EnvPool[a]) # Name(EnvPool[b]) } }

WithWenv(W, E) == { e : e \in E } \cup { <<w>> \o e : w \in W, e \in E }

WenvComposed ==
  { WENVName \o <<"=">> \o Join(s, <<",">>) :
      s \in SeqsUpTo(Range(SegPool), MaxSegs) \ { <<>> } }

ArgvComposed ==
  { <<ProgName>> \o s \o r : s \in SeqsUpTo(Range(TokenPool), MaxTokens), r \in Rests }

FoundTarget == <<"/","m","n","t","/","c","/","W","/","c","m","d",".","e","x","e">>

\* The runs of the launcher: each slice varies some inputs widely.
LauncherRuns ==
  [rev : {1, 2}, conf : {NoConf}, argv : {PlainArgv},
   environ : WithWenv(WenvPool, EnvsOf(MaxEnv)), target : {NotFound, FoundTarget}]
  \cup
  [rev : {2}, conf : ConfFiles, argv : {PlainArgv, <<ProgName, TokenPool[1], PlainArgv[2]>>},
   environ : EnvsOf(1), target : Targets]
  \cup
  [rev : {1, 2}, conf : {NoConf}, argv : {PlainArgv},
   environ : { <<w, EnvPool[8]>> : w \in WenvComposed }, target : {FoundTarget}]
  \cup
  [rev : {1, 2}, conf : {NoConf}, argv : ArgvComposed,
   environ : { <<EnvPool[7]>>, <<<<"W","E","N","V","=","@">>, EnvPool[8]>> }, target : {NotFound, FoundTarget}]

\* The helper started by hand, not by the launcher.
HelperRuns ==
  [hargs : HelperDirectArgs, file : DirectFiles, exists : BOOLEAN,
   content : DirectContent, environ : { <<EnvPool[8]>> }]

(***************************************************************************)
(* The state.                                                              *)
(***************************************************************************)
VARIABLES
  rev,          \* which revision of wenv.go runs (0: the helper was started by hand)
  conf,         \* /etc/wsl.conf
  argv,         \* the launcher's command line
  environ,      \* os.Environ() of the launcher
  targetPath,   \* what exec.LookPath finds for the target, NotFound if nothing
  proc,         \* "wenv" or "wenvhelper": the program this process runs
  pc,           \* where it is
  exitCode,     \* its exit code once pc = "exit", -1 before
  endedAt,      \* the step at which it ended
  panicked,     \* it ended in a Go panic
  osArgs,       \* os.Args of the launcher
  varopts,      \* the policy table
  wenvRead,     \* getvaropts was called
  vars,         \* the mapping to transmit
  envIdx,       \* how many entries of os.Environ() the loop has handled
  wslRoot,      \* the memoized mount root of rev 2
  confReads,    \* how often /etc/wsl.conf was read
  path,         \* the target's Windows path
  tempdir,
  fileName,     \* file.Name()
  deferred,     \* defer os.Remove(file.Name()) is registered
  winfile,
  i,            \* the exec loop's counter
  execCalls,    \* calls of syscall.Exec
  lastErr,      \* "none", "ENOMEM" or "other": the last call's error
  removeCalls,  \* calls of os.Remove by the launcher
  fileExists,   \* the handoff file is on disk
  fileContent,  \* [valid, map]: whether it decodes, and to what
  fileWin,      \* its Windows path
  created,      \* the launcher created a handoff file in this run
  hargs,        \* os.Args of the helper
  opens,        \* how often the helper opened the file
  hvars,        \* the decoded mapping
  pending,      \* the names the setenv loop has not reached
  henv,         \* the helper's environment block
  hdone,        \* the steps the helper has completed, in order
  childStarted  \* cmd.Start() returned without error

inputs == <<rev, conf, argv, environ, targetPath>>
ctl    == <<proc, pc, exitCode, endedAt, panicked>>
rootv  == <<wslRoot, confReads>>
lvars  == <<osArgs, varopts, wenvRead, vars, envIdx, path, tempdir, fileName,
            deferred, winfile, i, execCalls, lastErr, removeCalls>>
disk   == <<fileExists, fileContent, fileWin, created>>
hv     == <<hargs, opens, hvars, pending, henv, hdone, childStarted>>
vars_  == <<inputs, ctl, rootv, lvars, disk, hv>>

NoFile == [valid |-> FALSE, map |-> EmptyMap]

InitCommon ==
  /\ exitCode = -1 /\ endedAt = "" /\ panicked = FALSE
  /\ wenvRead = FALSE /\ vars = EmptyMap /\ envIdx = 0
  /\ wslRoot = <<>> /\ confReads = 0
  /\ path = <<>> /\ tempdir = <<>> /\ fileName = <<>> /\ deferred = FALSE
  /\ winfile = <<>> /\ i = 0 /\ execCalls = 0 /\ lastErr = "none" /\ removeCalls = 0
  /\ created = FALSE
  /\ opens = 0 /\ hvars = EmptyMap /\ pending = {} /\ childStarted = FALSE
  /\ hdone = <<>>

InitLauncher(sc) ==
  /\ rev = sc.rev /\ conf = sc.conf /\ argv = sc.argv /\ environ = sc.environ
  /\ targetPath = sc.target
  /\ proc = "wenv" /\ pc = "start"
  /\ osArgs = sc.argv /\ varopts = varoptsDefault(sc.rev)
  /\ fileExists = FALSE /\ fileContent = NoFile /\ fileWin = <<>>
  /\ hargs = <<>> /\ henv = EmptyMap
  /\ InitCommon

InitHelper(sc) ==
  /\ rev = 0 /\ conf = NoConf /\ argv = <<>> /\ environ = sc.environ
  /\ targetPath = NotFound
  /\ proc = "wenvhelper" /\ pc = "hargs"
  /\ osArgs = <<>> /\ varopts = EmptyMap
  /\ fileExists = sc.exists /\ fileContent = sc.content /\ fileWin = sc.file
  /\ hargs = sc.hargs /\ henv = EnvBlock(sc.environ)
  /\ InitCommon

Init ==
  \/ \E sc \in LauncherRuns : InitLauncher(sc)
  \/ \E sc \in HelperRuns : InitHelper(sc)

(***************************************************************************)
(* How a process ends or goes on.                                          *)
(***************************************************************************)
End(code, at) ==
  /\ pc' = "exit" /\ exitCode' = code /\ endedAt' = at
  /\ UNCHANGED <<proc, panicked>>

Crash(at) ==
  /\ pc' = "exit" /\ exitCode' = 2 /\ endedAt' = at /\ panicked' = TRUE
  /\ UNCHANGED proc

Goto(l) == pc' = l /\ UNCHANGED <<proc, exitCode, endedAt, panicked>>

\* n calls of winpath/wslpath in a row: the root they use, and the reads
CallRoot(n) ==
  IF rev = 2 /\ n > 0 THEN RootFor(wslRoot, conf) ELSE NoPanic(wslRoot)

Called(n) ==
  /\ wslRoot' = CallRoot(n).root
  /\ confReads' = confReads + (IF rev = 2 THEN ReadsFor(wslRoot, conf, n) ELSE 0)

(***************************************************************************)
(* The launcher, wenv().                                                   *)
(***************************************************************************)
\* os.Args = os.Args[1:], the loop over the leading name=value tokens, usage()
ParseArgs ==
  /\ proc = "wenv" /\ pc = "start"
  /\ LET a == Tail(osArgs)
         n == Leading(a)
         rest == SubSeq(a, n + 1, Len(a))
         vs == ParseVars(EmptyMap, SubSeq(a, 1, n))
     IN  IF rest = <<>>
         THEN /\ End(2, "start")
              /\ UNCHANGED <<osArgs, vars>>
         ELSE /\ osArgs' = rest
              /\ vars' = vs
              /\ Goto(IF DOMAIN vs = {} THEN "getvaropts" ELSE "lookpath")
  /\ UNCHANGED <<inputs, rootv, disk, hv, varopts, wenvRead, envIdx, path, tempdir,
                 fileName, deferred, winfile, i, execCalls, lastErr, removeCalls>>

\* if err := getvaropts(); err != nil { return 1 }
GetVarOpts ==
  /\ proc = "wenv" /\ pc = "getvaropts"
  /\ LET g == getvaropts(varopts, environ)
     IN  /\ varopts' = g.tbl
         /\ wenvRead' = TRUE
         /\ IF g.err THEN End(1, "getvaropts")
            ELSE Goto(IF environ = <<>> THEN "lookpath" ELSE "collect")
  /\ UNCHANGED <<inputs, rootv, disk, hv, osArgs, vars, envIdx, path, tempdir,
                 fileName, deferred, winfile, i, execCalls, lastErr, removeCalls>>

\* one iteration of "for _, e := range os.Environ()"
CollectStep ==
  /\ proc = "wenv" /\ pc = "collect" /\ envIdx < Len(environ)
  /\ LET e == environ[envIdx + 1]
         n == CallsFor(varopts, e)
         R == CallRoot(n)
     IN  IF R.panic
         THEN /\ Crash("collect")
              /\ confReads' = confReads + 1
              /\ UNCHANGED <<wslRoot, vars, envIdx>>
         ELSE /\ vars' = CollectOne(rev, R.root, varopts, vars, e)
              /\ envIdx' = envIdx + 1
              /\ Called(n)
              /\ Goto(IF envIdx + 1 = Len(environ) THEN "lookpath" ELSE "collect")
  /\ UNCHANGED <<inputs, disk, hv, osArgs, varopts, wenvRead, path, tempdir,
                 fileName, deferred, winfile, i, execCalls, lastErr, removeCalls>>

\* a mutant of LookTarget: a target that is not found returns 1
LookTargetReturns1 ==
  /\ proc = "wenv" /\ pc = "lookpath"
  /\ IF targetPath = NotFound
     THEN /\ End(1, "lookpath")
          /\ UNCHANGED <<path, rootv>>
     ELSE LET R == CallRoot(1)
              w == winpath(rev, R.root, targetPath)
          IN  IF R.panic
              THEN /\ Crash("lookpath")
                   /\ confReads' = confReads + 1
                   /\ UNCHANGED <<wslRoot, path>>
              ELSE /\ Called(1)
                   /\ IF w.ok
                      THEN path' = w.path /\ Goto("gettemp")
                      ELSE UNCHANGED path /\ End(126, "lookpath")
  /\ UNCHANGED <<inputs, disk, hv, osArgs, varopts, wenvRead, vars, envIdx, tempdir,
                 fileName, deferred, winfile, i, execCalls, lastErr, removeCalls>>

\* exec.LookPath(os.Args[0]) and winpath(path)
LookTarget ==
  /\ proc = "wenv" /\ pc = "lookpath"
  /\ IF targetPath = NotFound
     THEN /\ End(127, "lookpath")
          /\ UNCHANGED <<path, rootv>>
     ELSE LET R == CallRoot(1)
              w == winpath(rev, R.root, targetPath)
          IN  IF R.panic
              THEN /\ Crash("lookpath")
                   /\ confReads' = confReads + 1
                   /\ UNCHANGED <<wslRoot, path>>
              ELSE /\ Called(1)
                   /\ IF w.ok
                      THEN path' = w.path /\ Goto("gettemp")
                      ELSE UNCHANGED path /\ End(126, "lookpath")
  /\ UNCHANGED <<inputs, disk, hv, osArgs, varopts, wenvRead, vars, envIdx, tempdir,
                 fileName, deferred, winfile, i, execCalls, lastErr, removeCalls>>

\* exec.Command("cmd.exe", "/c", "echo %TEMP%").Output() and wslpath
QueryTemp ==
  /\ proc = "wenv" /\ pc = "gettemp"
  /\ \/ /\ End(1, "gettemp")
        /\ UNCHANGED <<tempdir, rootv>>
     \/ \E cmdout \in TempOutputs :
          /\ tempdir' = wslpath(rev, CallRoot(1).root, TrimSpace(cmdout))
          /\ Called(1)
          /\ Goto("tempfile")
  /\ UNCHANGED <<inputs, disk, hv, osArgs, varopts, wenvRead, vars, envIdx, path,
                 fileName, deferred, winfile, i, execCalls, lastErr, removeCalls>>

\* ioutil.TempFile(tempdir, "wenv")
CreateTemp ==
  /\ proc = "wenv" /\ pc = "tempfile"
  /\ \/ /\ End(1, "tempfile")
        /\ UNCHANGED <<fileName, disk>>
     \/ /\ fileName' = (IF tempdir = <<>> THEN TmpDir ELSE tempdir)
                         \o <<"/">> \o fileprefix \o <<"1">>
        /\ fileExists' = TRUE
        /\ fileContent' = NoFile
        /\ created' = TRUE
        /\ UNCHANGED fileWin
        /\ Goto("encode")
  /\ UNCHANGED <<inputs, rootv, hv, osArgs, varopts, wenvRead, vars, envIdx, path,
                 tempdir, deferred, winfile, i, execCalls, lastErr, removeCalls>>

\* gob.NewEncoder(file).Encode(vars)
Encode ==
  /\ proc = "wenv" /\ pc = "encode"
  /\ \/ /\ End(1, "encode")
        /\ UNCHANGED fileContent
     \/ /\ fileContent' = [valid |-> TRUE, map |-> vars]
        /\ Goto("close")
  /\ UNCHANGED <<inputs, rootv, hv, lvars, fileExists, fileWin, created>>

\* file.Close(), then defer os.Remove(file.Name())
CloseFile ==
  /\ proc = "wenv" /\ pc = "close"
  /\ \/ /\ End(1, "close")
        /\ UNCHANGED deferred
     \/ /\ deferred' = TRUE
        /\ Goto("lookhelper")
  /\ UNCHANGED <<inputs, rootv, hv, disk, osArgs, varopts, wenvRead, vars, envIdx,
                 path, tempdir, fileName, winfile, i, execCalls, lastErr, removeCalls>>

\* return 1 with the deferred os.Remove, whose error nobody reads
ReturnDeferred(at) ==
  /\ End(1, at)
  /\ IF deferred
     THEN /\ removeCalls' = removeCalls + 1
          /\ \E removed \in BOOLEAN : fileExists' = (fileExists /\ ~removed)
     ELSE UNCHANGED <<removeCalls, fileExists>>
  /\ UNCHANGED <<fileContent, fileWin, created>>

\* exec.LookPath(helper)
LookHelper ==
  /\ proc = "wenv" /\ pc = "lookhelper"
  /\ \/ ReturnDeferred("lookhelper")
     \/ /\ Goto("winfile")
        /\ UNCHANGED <<removeCalls, disk>>
  /\ UNCHANGED <<inputs, rootv, hv, osArgs, varopts, wenvRead, vars, envIdx,
                 path, tempdir, fileName, deferred, winfile, i, execCalls, lastErr>>

\* winfile, err := winpath(file.Name())
ConvertFile ==
  /\ proc = "wenv" /\ pc = "winfile"
  /\ LET w == winpath(rev, CallRoot(1).root, fileName)
     IN  IF w.ok
         THEN /\ winfile' = w.path
              /\ fileWin' = w.path
              /\ Goto("exec")
              /\ UNCHANGED <<removeCalls, fileExists, fileContent, created>>
         ELSE /\ ReturnDeferred("winfile")
              /\ UNCHANGED winfile
  /\ Called(1)
  /\ UNCHANGED <<inputs, hv, osArgs, varopts, wenvRead, vars, envIdx,
                 path, tempdir, fileName, deferred, i, execCalls, lastErr>>

\* a mutant of Retry: every error is retried
RetryAnyError(errno) == rev = 1 /\ i < execRetries

\* whether the launcher calls syscall.Exec again after errno on attempt i
Retry(errno) == rev = 1 /\ errno = "ENOMEM" /\ i < execRetries

\* syscall.Exec(cmd, args, os.Environ()): rev 1 in its loop, rev 2 once
Exec ==
  /\ proc = "wenv" /\ pc = "exec"
  /\ execCalls' = execCalls + 1
  /\ \/ /\ proc' = "wenvhelper" /\ pc' = "hargs"
        /\ hargs' = <<winfile, path>> \o osArgs
        /\ henv' = EnvBlock(environ)
        /\ lastErr' = "none"
        /\ UNCHANGED <<exitCode, endedAt, panicked, i, removeCalls, disk,
                       opens, hvars, pending, childStarted, hdone>>
     \/ \E errno \in {"ENOMEM", "other"} :
          /\ lastErr' = errno
          /\ IF Retry(errno)
             THEN /\ i' = i + 1
                  /\ Goto("exec")
                  /\ UNCHANGED <<removeCalls, disk>>
             ELSE /\ ReturnDeferred("exec")
                  /\ UNCHANGED i
          /\ UNCHANGED hv
  /\ UNCHANGED <<inputs, rootv, osArgs, varopts, wenvRead, vars, envIdx,
                 path, tempdir, fileName, deferred, winfile>>

(***************************************************************************)
(* The helper, main() of wenvhelper.  hargs is os.Args after the first     *)
(* os.Args = os.Args[1:].  log.Fatal exits with 1.                         *)
(***************************************************************************)
\* the argument count and the prefix of the first argument's base name
HelperCheckArgs ==
  /\ proc = "wenvhelper" /\ pc = "hargs"
  /\ IF Len(hargs) < 3 \/ ~HasPrefix(Base(hargs[1]), fileprefix)
     THEN End(1, "hargs")
     ELSE Goto("hopen")
  /\ UNCHANGED <<inputs, rootv, lvars, disk, hv>>

\* os.Open(os.Args[0]); os.Args = os.Args[1:]
HelperOpen ==
  /\ proc = "wenvhelper" /\ pc = "hopen"
  /\ \/ /\ End(1, "hopen")
        /\ UNCHANGED <<hargs, opens, hdone>>
     \/ /\ fileExists /\ hargs[1] = fileWin
        /\ opens' = opens + 1
        /\ hdone' = Append(hdone, "open")
        /\ hargs' = Tail(hargs)
        /\ Goto("hdecode")
  /\ UNCHANGED <<inputs, rootv, lvars, disk, hvars, pending, henv, childStarted>>

\* gob.NewDecoder(file).Decode(&vars)
HelperDecode ==
  /\ proc = "wenvhelper" /\ pc = "hdecode"
  /\ \/ /\ End(1, "hdecode")
        /\ UNCHANGED <<hvars, hdone>>
     \/ /\ fileContent.valid
        /\ hvars' = fileContent.map
        /\ hdone' = Append(hdone, "decode")
        /\ Goto("hclose")
  /\ UNCHANGED <<inputs, rootv, lvars, disk, hargs, opens, pending, henv, childStarted>>

\* file.Close()
HelperClose ==
  /\ proc = "wenvhelper" /\ pc = "hclose"
  /\ \/ /\ End(1, "hclose")
        /\ UNCHANGED hdone
     \/ /\ hdone' = Append(hdone, "close")
        /\ Goto("hremove")
  /\ UNCHANGED <<inputs, rootv, lvars, disk, hargs, opens, hvars, pending, henv,
                 childStarted>>

\* a mutant of HelperRemove: the file is not removed
HelperRemoveKeeps ==
  /\ proc = "wenvhelper" /\ pc = "hremove"
  /\ \/ /\ End(1, "hremove")
        /\ UNCHANGED <<fileExists, pending, hdone>>
     \/ /\ fileExists' = fileExists
        /\ pending' = DOMAIN hvars
        /\ hdone' = Append(hdone, "remove")
        /\ Goto(IF DOMAIN hvars = {} THEN "hstart" ELSE "hsetenv")
  /\ UNCHANGED <<inputs, rootv, lvars, fileContent, fileWin, created,
                 hargs, opens, hvars, henv, childStarted>>

\* os.Remove(file.Name())
HelperRemove ==
  /\ proc = "wenvhelper" /\ pc = "hremove"
  /\ \/ /\ End(1, "hremove")
        /\ UNCHANGED <<fileExists, pending, hdone>>
     \/ /\ fileExists' = FALSE
        /\ pending' = DOMAIN hvars
        /\ hdone' = Append(hdone, "remove")
        /\ Goto(IF DOMAIN hvars = {} THEN "hstart" ELSE "hsetenv")
  /\ UNCHANGED <<inputs, rootv, lvars, fileContent, fileWin, created,
                 hargs, opens, hvars, henv, childStarted>>

\* one iteration of "for k, v := range vars": a map is ranged over in any
\* order; os.Setenv refuses an empty name
HelperSetenv ==
  /\ proc = "wenvhelper" /\ pc = "hsetenv"
  /\ \E k \in pending :
       \/ /\ End(1, "hsetenv")
          /\ UNCHANGED <<henv, pending>>
       \/ /\ k # <<>>
          /\ henv' = Setenv(henv, k, hvars[k])
          /\ pending' = pending \ {k}
          /\ Goto(IF pending = {k} THEN "hstart" ELSE "hsetenv")
  /\ UNCHANGED <<inputs, rootv, lvars, disk, hargs, opens, hvars, hdone, childStarted>>

\* cmd.Start()
HelperStart ==
  /\ proc = "wenvhelper" /\ pc = "hstart"
  /\ \/ /\ End(126, "hstart")
        /\ UNCHANGED childStarted
     \/ /\ childStarted' = TRUE
        /\ Goto("hwait")
  /\ UNCHANGED <<inputs, rootv, lvars, disk, hargs, opens, hvars, pending, henv, hdone>>

ChildCodes == {0, 3}

\* cmd.Wait() and os.Exit(code)
HelperWait ==
  /\ proc = "wenvhelper" /\ pc = "hwait"
  /\ \/ End(126, "hwait")
     \/ \E code \in ChildCodes : End(code, "done")
  /\ UNCHANGED <<inputs, rootv, lvars, disk, hv>>

Next ==
  \/ ParseArgs \/ GetVarOpts \/ CollectStep \/ LookTarget \/ QueryTemp
  \/ CreateTemp \/ Encode \/ CloseFile \/ LookHelper \/ ConvertFile \/ Exec
  \/ HelperCheckArgs \/ HelperOpen \/ HelperDecode \/ HelperClose
  \/ HelperRemove \/ HelperSetenv \/ HelperStart \/ HelperWait

Spec == Init /\ [][Next]_vars_

(***************************************************************************)
(* What the claims speak of.                                               *)
(***************************************************************************)
LauncherRun == rev # 0

\* the command line has leading name=value tokens
Explicit == LauncherRun /\ Leading(Tail(argv)) > 0

\* the launcher wrote the mapping to the handoff file
Written == created /\ fileContent.valid

Transmitted == fileContent.map

\* the entries of os.Environ() the loop has handled
Handled == { environ[k] : k \in 1..envIdx }

Value(e) == SplitN2(e, "=")[2]

(***************************************************************************)
(* C1. As stated: in every run that reaches the handoff write, no name     *)
(* whose policy in the table is Ignore is a key of the transmitted         *)
(* mapping.  This is the statement for any command line; it fails for      *)
(* "wenv SHELL=x cmd.exe".                                                 *)
(***************************************************************************)
C1_IgnoredNeverTransmitted_AnyCommandLine ==
  (LauncherRun /\ Written) =>
    \A n \in DOMAIN varopts : varopts[n] = varIgnore => n \notin DOMAIN Transmitted

(***************************************************************************)
(* C1, amended: in every run without leading name=value tokens that        *)
(* reaches the handoff write, no name whose policy in the resolved table   *)
(* is Ignore is a key of the transmitted mapping.                          *)
(***************************************************************************)
C1_IgnoredNeverTransmitted ==
  (LauncherRun /\ ~Explicit /\ Written) =>
    \A n \in DOMAIN varopts : varopts[n] = varIgnore => n \notin DOMAIN Transmitted

\* the environment held an ignored name, and the mapping was written without it
C1_Witness ==
  /\ LauncherRun /\ ~Explicit /\ Written
  /\ \E e \in Range(environ) :
       /\ OptOf(varopts, Name(e)) = varIgnore
       /\ Name(e) \notin DOMAIN Transmitted
  /\ DOMAIN Transmitted # {}

(***************************************************************************)
(* C2. With leading name=value tokens the transmitted mapping is exactly   *)
(* the tokens' mapping: the value is what follows the first "=", a name's  *)
(* last token wins, nothing is converted, no variable of the environment   *)
(* is added, and neither WENV nor the policy table is consulted (the table *)
(* stays as built, /etc/wsl.conf is not read for a variable).              *)
(***************************************************************************)
LeadingTokens == SubSeq(Tail(argv), 1, Leading(Tail(argv)))

\* the position of the last token named n
LastToken(n) ==
  CHOOSE k \in 1..Len(LeadingTokens) :
    /\ Name(LeadingTokens[k]) = n
    /\ \A j \in (k + 1)..Len(LeadingTokens) : Name(LeadingTokens[j]) # n

TokenMap ==
  [n \in { Name(LeadingTokens[k]) : k \in 1..Len(LeadingTokens) } |->
     LET tok == LeadingTokens[LastToken(n)]
     IN  SubSeq(tok, Len(n) + 2, Len(tok))]

ExampleArgv == <<ProgName, <<"F","O","O","=","/","m","n","t","/","c","/","x">>, <<"c","m","d",".","e","x","e">>>>

C2_ExplicitVerbatim ==
  Explicit =>
    /\ ~wenvRead
    /\ varopts = varoptsDefault(rev)
    /\ envIdx = 0
    /\ pc \in {"start"} \/ vars = TokenMap \/ (pc = "exit" /\ endedAt = "start")
    /\ Written => Transmitted = TokenMap
    /\ (Written /\ argv = ExampleArgv) =>
         Transmitted = Put(EmptyMap, <<"F","O","O">>, <<"/","m","n","t","/","c","/","x">>)

\* a name given twice was written with its last value, unconverted
C2_Witness ==
  /\ Explicit /\ Written
  /\ Len(LeadingTokens) = 2
  /\ Name(LeadingTokens[1]) = Name(LeadingTokens[2])
  /\ Transmitted = Put(EmptyMap, <<"F","O","O">>, <<"2">>)

(***************************************************************************)
(* C3. As stated: a PathList variable is transmitted as the ";"-join of    *)
(* the conversions of the non-empty segments that convert; empty segments  *)
(* contribute nothing.  It fails for PATH=/mnt/c/a::/bin.                  *)
(***************************************************************************)
Converts(s) == winpath(rev, wslRoot, s).ok
Converted(s) == winpath(rev, wslRoot, s).path

JoinConverted(kept) ==
  Join([j \in 1..Len(kept) |-> Converted(kept[j])], <<";">>)

C3_PathList_EmptySegmentsDropped ==
  \A e \in Handled :
    OptOf(varopts, Name(e)) = varPath =>
      /\ Name(e) \in DOMAIN vars
      /\ vars[Name(e)] =
           JoinConverted(SelectSeq(Split(Value(e), ":"),
                                   LAMBDA s : s # <<>> /\ Converts(s)))

(***************************************************************************)
(* C3, amended: a PathList variable is always forwarded, and its value is  *)
(* the ";"-join, in order, of the conversions of the ":"-separated         *)
(* segments that convert; a failing segment contributes nothing, an empty  *)
(* segment converts to the empty string and keeps its place.               *)
(* "/mnt/c/a:/mnt/d/b" under the default root becomes "C:\a;D:\b".         *)
(***************************************************************************)
C3_PathList ==
  \A e \in Handled :
    OptOf(varopts, Name(e)) = varPath =>
      /\ Name(e) \in DOMAIN vars
      /\ vars[Name(e)] =
           JoinConverted(SelectSeq(Split(Value(e), ":"), LAMBDA s : Converts(s)))
      /\ (Value(e) = <<"/","m","n","t","/","c","/","a",":","/","m","n","t","/","d","/","b">> /\ (rev = 1 \/ wslRoot = DefaultRoot)) =>
           vars[Name(e)] = <<"C",":","\\","a",";","D",":","\\","b">>

\* a list with an empty and a failing segment was converted and written
C3_Witness ==
  /\ Written
  /\ \E e \in Handled :
       /\ OptOf(varopts, Name(e)) = varPath
       /\ \E s \in Range(Split(Value(e), ":")) : ~Converts(s)
       /\ Value(e) = <<"/","m","n","t","/","c","/","a",":",":","/","b","i","n">>
       /\ Transmitted[Name(e)] = <<"C",":","\\","a",";">>

(***************************************************************************)
(* C4. As stated: for every value v of a Convert variable that winpath     *)
(* converts, wslpath of the result is v up to the mount-root prefix.  It   *)
(* fails for HOME=C:/Users, which comes back as /mnt/c/Users.              *)
(***************************************************************************)
\* rev 1 takes /<l> for /mnt/<l>; rev 2 knows one root only
NormalizeRoot(v) ==
  IF rev = 1 /\ MatchDrive(<<"/">>, v) THEN <<"/","m","n","t">> \o v ELSE v

RoundTrip(v) == wslpath(rev, wslRoot, Converted(v))

C4_RoundTrip_EveryValue ==
  \A e \in Handled :
    (OptOf(varopts, Name(e)) = varConvert /\ Converts(Value(e))) =>
      RoundTrip(Value(e)) = NormalizeRoot(Value(e))

(***************************************************************************)
(* C4, amended: for every value v of a Convert variable that holds no      *)
(* backslash and does not start with a letter and a colon, if winpath      *)
(* converts v the variable is transmitted with that conversion, and        *)
(* wslpath of it is v up to the mount-root prefix (rev 1 returns /mnt/<l>  *)
(* for /<l>), the mount root holding no regular-expression metacharacter.  *)
(* "/mnt/c/Users" becomes "C:\Users" and comes back as "/mnt/c/Users".     *)
(***************************************************************************)
PosixShaped(v) ==
  /\ \A k \in 1..Len(v) : v[k] # "\\"
  /\ ~(Len(v) >= 2 /\ (IsLower(v[1]) \/ IsUpper(v[1])) /\ v[2] = ":")

C4_RoundTrip ==
  \A e \in Handled :
    (OptOf(varopts, Name(e)) = varConvert /\ Converts(Value(e)) /\ PosixShaped(Value(e))) =>
      /\ Name(e) \in DOMAIN vars
      /\ wslpath(rev, wslRoot, vars[Name(e)]) = NormalizeRoot(Value(e))
      /\ (Value(e) = <<"/","m","n","t","/","c","/","U","s","e","r","s">> /\ (rev = 1 \/ wslRoot = DefaultRoot)) =>
           vars[Name(e)] = <<"C",":","\\","U","s","e","r","s">>

\* /mnt/c/Users was converted to C:\Users, which converts back
C4_Witness ==
  \E e \in Handled :
    /\ OptOf(varopts, Name(e)) = varConvert
    /\ Value(e) = <<"/","m","n","t","/","c","/","U","s","e","r","s">>
    /\ Name(e) \in DOMAIN vars
    /\ vars[Name(e)] = <<"C",":","\\","U","s","e","r","s">>
    /\ wslpath(rev, wslRoot, vars[Name(e)]) = <<"/","m","n","t","/","c","/","U","s","e","r","s">>

(***************************************************************************)
(* C5. The table getvaropts leaves is the built-in table overlaid, left to *)
(* right, by one entry per non-empty trimmed segment of WENV: "!" Ignore,  *)
(* "@" Convert, "#" PathList, "$" or nothing Pass, the name being the rest *)
(* of the segment after one modifier; a name's last entry wins, also over  *)
(* a built-in one.  It fails if and only if a segment's name is empty, and *)
(* the launcher then exits 1 having translated nothing.                    *)
(***************************************************************************)
WenvSegments ==
  SelectSeq([k \in 1..Len(Split(Getenv(environ, WENVName), ",")) |->
               TrimSpace(Split(Getenv(environ, WENVName), ",")[k])],
            LAMBDA s : s # <<>>)

Modifier(s) == IF s[1] \in {"!", "@", "#", "$"} THEN s[1] ELSE "$"

NameOf(s) == IF s[1] \in {"!", "@", "#", "$"} THEN SubSeq(s, 2, Len(s)) ELSE s

PolicyOf(s) ==
  CASE Modifier(s) = "!" -> varIgnore
    [] Modifier(s) = "@" -> varConvert
    [] Modifier(s) = "#" -> varPath
    [] Modifier(s) = "$" -> varPass

NamedEmpty(segs) == \E k \in 1..Len(segs) : NameOf(segs[k]) = <<>>

EmptyNamed == NamedEmpty(WenvSegments)

\* the position of the last segment that names n
LastSegment(segs, n) ==
  CHOOSE k \in 1..Len(segs) :
    /\ NameOf(segs[k]) = n
    /\ \A j \in (k + 1)..Len(segs) : NameOf(segs[j]) # n

\* the built-in table with the segments' entries laid over it
Overlay(segs) ==
  LET names == { NameOf(segs[k]) : k \in 1..Len(segs) }
  IN  [n \in DOMAIN varoptsDefault(rev) \cup names |->
         IF n \in names THEN PolicyOf(segs[LastSegment(segs, n)])
         ELSE varoptsDefault(rev)[n]]

C5_PolicyResolution ==
  (LauncherRun /\ wenvRead) =>
    LET segs == WenvSegments
        bad  == NamedEmpty(segs)
    IN  /\ (pc = "exit" /\ endedAt = "getvaropts") <=> bad
        /\ ~bad => varopts = Overlay(segs)
        /\ bad =>
             /\ exitCode = 1
             /\ vars = EmptyMap /\ envIdx = 0 /\ confReads = 0 /\ ~created
        /\ Getenv(environ, WENVName) = <<"!","F","O","O",","," ","@","B","A","R",","," ","#","B","A","Z",","," ","$","P","A","T","H">> =>
             /\ varopts[<<"F","O","O">>] = varIgnore /\ varopts[<<"B","A","R">>] = varConvert
             /\ varopts[<<"B","A","Z">>] = varPath /\ varopts[N_PATH] = varPass

\* the spec's example was resolved, PATH's built-in PathList overridden
C5_Witness ==
  /\ LauncherRun /\ wenvRead /\ pc = "collect"
  /\ Getenv(environ, WENVName) = <<"!","F","O","O",","," ","@","B","A","R",","," ","#","B","A","Z",","," ","$","P","A","T","H">>
  /\ varoptsDefault(rev)[N_PATH] = varPath
  /\ varopts[N_PATH] = varPass

(***************************************************************************)
(* C6. As stated: a run whose target is not on the search path ends with   *)
(* exit code 127 and never creates a handoff file.  The exit code fails    *)
(* for WENV=@ without name=value tokens: the launcher returns 1 before it  *)
(* looks the target up.                                                    *)
(***************************************************************************)
HasTarget == LauncherRun /\ Leading(Tail(argv)) < Len(Tail(argv))

C6_NotFound_Always127 ==
  (HasTarget /\ targetPath = NotFound) =>
    /\ ~created
    /\ pc = "exit" => exitCode = 127

(***************************************************************************)
(* C6, amended: a run whose target is not on the search path never creates *)
(* a handoff file, never gets past the lookup, and ends with exit code 127 *)
(* whenever it reaches the lookup: always with leading name=value tokens,  *)
(* and otherwise unless it ended while collecting the environment, with 1  *)
(* on a WENV segment with an empty name or in the panic of getWSLRoot.     *)
(***************************************************************************)
C6_NotFound ==
  (HasTarget /\ targetPath = NotFound) =>
    /\ ~created /\ proc = "wenv"
    /\ pc \in {"start", "getvaropts", "collect", "lookpath", "exit"}
    /\ pc = "exit" =>
         \/ exitCode = 127 /\ endedAt = "lookpath"
         \/ ~Explicit /\ exitCode = 1 /\ endedAt = "getvaropts" /\ EmptyNamed
         \/ ~Explicit /\ panicked /\ endedAt = "collect" /\ getWSLRoot(conf).panic
    /\ (pc = "exit" /\ Explicit) => exitCode = 127

\* the lookup failed: exit code 127 and no file
C6_Witness ==
  /\ HasTarget /\ targetPath = NotFound
  /\ pc = "exit" /\ exitCode = 127 /\ ~created /\ ~fileExists

(***************************************************************************)
(* C7. As stated: the file is opened for reading at most once; whenever a  *)
(* run ends because the launcher failed after creating the file, or the    *)
(* helper failed at any step, the file is gone; and it is gone after a     *)
(* successful helper run.  It fails when gob encoding fails: the launcher  *)
(* returns 1 before its "defer os.Remove" and the file stays.              *)
(***************************************************************************)
LauncherFailedAfterCreate ==
  proc = "wenv" /\ pc = "exit" /\
  endedAt \in {"encode", "close", "lookhelper", "winfile", "exec"}

HelperFailed ==
  proc = "wenvhelper" /\ pc = "exit" /\
  endedAt \in {"hargs", "hopen", "hdecode", "hclose", "hremove", "hsetenv", "hstart"}

HelperSucceeded == proc = "wenvhelper" /\ pc = "exit" /\ endedAt = "done"

ExecDiscipline(most) ==
  /\ execCalls <= most
  /\ lastErr = "other" => (proc = "wenv" /\ pc = "exit" /\ exitCode = 1 /\ endedAt = "exec")
  /\ (lastErr = "ENOMEM" /\ (rev = 2 \/ execCalls >= most)) =>
       (proc = "wenv" /\ pc = "exit" /\ exitCode = 1 /\ endedAt = "exec")
  /\ (proc = "wenv" /\ pc = "exec") => (execCalls = i /\ i <= most - 1)

C8_AtMost10Calls == ExecDiscipline(execRetries)

(***************************************************************************)
(* C8, amended: the launcher calls syscall.Exec at most 11 times, once and *)
(* up to 10 retries (rev 2: once); after the call that reports the         *)
(* eleventh ENOMEM in a row it ends with exit code 1, so it never loops    *)
(* for ever; an error other than ENOMEM ends it with 1 with no further     *)
(* call.                                                                   *)
(***************************************************************************)
C8_ExecRetry ==
  /\ ExecDiscipline(execRetries + 1)
  /\ rev = 2 => execCalls <= 1

\* the eleventh call reported ENOMEM too and the launcher returned 1
C8_Witness ==
  /\ rev = 1 /\ execCalls = execRetries + 1 /\ lastErr = "ENOMEM"
  /\ proc = "wenv" /\ pc = "exit" /\ exitCode = 1

(***************************************************************************)
(* C9. Mount-root discovery never fails: whatever /etc/wsl.conf holds, no  *)
(* call panics, the root is not empty afterwards, it is the default when   *)
(* the file is absent or its root entry is malformed (no "=", several "=", *)
(* an empty value, an unbalanced or empty quoted value), and the file is   *)
(* read at most once per process.  The code panics on "root =".            *)
(***************************************************************************)
RootLine ==
  LET lines == Split(conf.text, "\n")
      hits == SelectSeq(lines, LAMBDA s : Contains(s, <<"r","o","o","t">>))
  IN  IF conf.readable /\ hits # <<>> THEN hits[1] ELSE <<>>

RootValue == TrimSpace(Split(RootLine, "=")[Len(Split(RootLine, "="))])

Balanced(v) == Len(v) >= 2 /\ v[1] = "\"" /\ v[Len(v)] = "\""

WellFormedEntry ==
  /\ Len(Split(RootLine, "=")) = 2
  /\ RootValue # <<>>
  /\ IF RootValue[1] = "\"" \/ RootValue[Len(RootValue)] = "\""
     THEN Balanced(RootValue) /\ Len(RootValue) > 2
     ELSE TRUE

C9_DiscoveryNeverFails ==
  rev = 2 =>
    /\ ~panicked
    /\ confReads <= 1
    /\ confReads > 0 => wslRoot # <<>>
    /\ (confReads > 0 /\ ~WellFormedEntry) => wslRoot = DefaultRoot

(***************************************************************************)
(* C10. As stated: when the child is started the file has been opened,     *)
(* decoded, closed and deleted, in this order, and the helper's            *)
(* environment gives every name of the decoded mapping its transmitted     *)
(* value; a failure of the prefix check, open, decode, close, delete or a  *)
(* setenv ends the helper with a failure and the child is never started.   *)
(* The values fail for names that differ in case only ("foo" and "FOO"):   *)
(* the Windows environment holds one variable for both.                    *)
(***************************************************************************)
HGetenv(n) == IF ToUpper(n) \in DOMAIN henv THEN henv[ToUpper(n)] ELSE <<>>

HelperOrder ==
  /\ childStarted =>
       /\ SubSeq(hdone, 1, 4) = <<"open", "decode", "close", "remove">>
       /\ opens = 1 /\ ~fileExists /\ pending = {}
       /\ hvars = fileContent.map
       /\ created => hvars = vars
  /\ (HelperFailed /\ endedAt # "hstart") => (exitCode # 0 /\ ~childStarted)
  /\ (proc = "wenvhelper" /\ pc \in {"hargs", "hopen", "hdecode", "hclose",
                                    "hremove", "hsetenv", "hstart"}) => ~childStarted

C10_EveryNameDelivered ==
  /\ HelperOrder
  /\ childStarted => \A n \in DOMAIN hvars : HGetenv(n) = hvars[n]

(***************************************************************************)
(* C10, amended: as stated, the delivered value being promised for every   *)
(* name of the mapping that no other name of the mapping equals up to the  *)
(* case of its letters; of names that differ in case only, one's value is  *)
(* delivered under both.                                                   *)
(***************************************************************************)
CaseTwins(n) == { m \in DOMAIN hvars : ToUpper(m) = ToUpper(n) }

C10_HelperDelivery ==
  /\ HelperOrder
  /\ childStarted =>
       \A n \in DOMAIN hvars :
         /\ CaseTwins(n) = {n} => HGetenv(n) = hvars[n]
         /\ \E m \in CaseTwins(n) : HGetenv(n) = hvars[m]

\* the child was started with FOO overwritten: the helper inherited
\* FOO=/mnt/c/x and was sent another value
C10_Witness ==
  /\ childStarted /\ created
  /\ <<"F","O","O">> \in DOMAIN EnvBlock(environ)
  /\ EnvBlock(environ)[<<"F","O","O">>] = <<"/","m","n","t","/","c","/","x">>
  /\ <<"F","O","O">> \in DOMAIN hvars /\ hvars[<<"F","O","O">>] # <<"/","m","n","t","/","c","/","x">>
  /\ henv[<<"F","O","O">>] = hvars[<<"F","O","O">>]

====
